---- MODULE Spec2Model ----
(***************************************************************************)
(* TDungeon: a text adventure evaluated by the TypeScript type checker.    *)
(* Every type alias of src/TDungeon.ts is a pure function on types; the    *)
(* model evaluates them on values.  A string literal type is a sequence of *)
(* text pieces (template literals concatenate the pieces), a tuple type is *)
(* a sequence, an object type is a record, `undefined` is "undefined", and *)
(* the types `null` and `never` in the player slot of a GameState are the  *)
(* records Null and Never.                                                 *)
(***************************************************************************)
EXTENDS Integers, Sequences, FiniteSets, TLC

VARIABLES narration, player, prevPlayer, action, error, tupleOrder

vars == <<narration, player, prevPlayer, action, error, tupleOrder>>

(* ---------------- bounds ---------------- *)

\* longest inventory an Act may build
MaxInv == 2
\* largest health of a hand-written input player state
MaxInputHealth == 2
\* longest inventory of a hand-written input player state
MaxInputInv == 1
\* an Act is explored while the health it yields is at least -MaxDamage
MaxDamage == 1

(* ---------------- TypeUtils ---------------- *)

Undefined == "undefined"

Null == [null |-> TRUE]

Never == [never |-> TRUE]

\* Get<TCollection, N> on a tuple: the element at 0-based index N
Get(TCollection, N) ==
  IF N + 1 \in DOMAIN TCollection THEN TCollection[N + 1] ELSE Undefined

\* Update letting the value of A win over the value of B
UpdateKeepsOld(A, B) ==
  [K \in DOMAIN A \cup DOMAIN B |-> IF K \in DOMAIN A THEN A[K] ELSE B[K]]

\* Obj.Update<A, B>: the keys of A not in B keep A's value, the keys of B take B's
Update(A, B) ==
  [K \in (DOMAIN A \ DOMAIN B) \cup DOMAIN B |-> IF K \in DOMAIN B THEN B[K] ELSE A[K]]

\* KeyWithValue matching [TItems, any]: the rows without a required item are lost
KeyWithValueNoUndefined(TObj, TItems) ==
  {TObj[i][1] : i \in {j \in DOMAIN TObj : TObj[j][2][1] \in TItems}}

\* KeyWithValue matching every value: each key of the table
KeyWithValueAnyValue(TObj, TItems) ==
  {TObj[i][1] : i \in DOMAIN TObj}

\* Obj.KeyWithValue<TObj, [undefined | TItems, any]>: TObj is an action table, a
\* sequence of <<key, [required item, effect]>> rows in declaration order
KeyWithValue(TObj, TItems) ==
  {TObj[i][1] : i \in {j \in DOMAIN TObj : TObj[j][2][1] \in {Undefined} \cup TItems}}

\* List.Join<TTuple, TDelimeter>
RECURSIVE Join(_, _)
Join(TTuple, TDelimeter) ==
  IF TTuple = <<>> THEN <<>>
  ELSE IF Tail(TTuple) = <<>> THEN Head(TTuple)
  ELSE Head(TTuple) \o TDelimeter \o Join(Tail(TTuple), TDelimeter)

PositiveIntegers == [i \in 1..20 |-> i]

NegativeIntegers == [i \in 1..20 |-> 0 - i]

PositiveIntegersUnshifted == <<0>> \o PositiveIntegers

PositiveIntegersUnshiftedTwice == <<0 - 1>> \o PositiveIntegersUnshifted

IsNegative(N) == N < 0

Negate(N) == 0 - N

\* Decrement reading the tuple that starts at 0: the number itself
DecrementUnshiftedOnce(N) ==
  IF ~IsNegative(N) THEN Get(PositiveIntegersUnshifted, N)
  ELSE Get(NegativeIntegers, Negate(N))

\* Decrement reading the tuple Increment reads
DecrementWrongTuple(N) ==
  IF ~IsNegative(N) THEN Get(PositiveIntegers, N)
  ELSE Get(NegativeIntegers, Negate(N))

\* Num.Decrement<N>
Decrement(N) ==
  IF ~IsNegative(N) THEN Get(PositiveIntegersUnshiftedTwice, N)
  ELSE Get(NegativeIntegers, Negate(N))

(* ---------------- map elements ---------------- *)

GameItems == {"Small Key", "Spider Mask", "Green Gem"}

Wall == [type |-> "wall", description |-> <<"It's a wall">>, actions |-> <<>>]

Corridor(TDescription, TTarget) ==
  [type |-> "corridor", target |-> TTarget, description |-> <<TDescription>>, actions |-> <<>>]

Room(TDescription, TInsideDescription, TActions) ==
  [type |-> "room", description |-> <<TDescription>>,
   insideDescription |-> <<TInsideDescription>>, actions |-> TActions]

Item(TDescription, TActions) ==
  [type |-> "item", description |-> <<TDescription>>, actions |-> TActions]

MapLevel(TLevel) ==
  [level |-> TLevel,
   actions |-> << <<"left", <<Undefined, 0>> >>,
                  <<"forward", <<Undefined, 1>> >>,
                  <<"right", <<Undefined, 2>> >> >>]

IsMapLevel(T) == "level" \in DOMAIN T

IsWall(T) == "type" \in DOMAIN T /\ T.type = "wall"

IsCorridor(T) == "type" \in DOMAIN T /\ T.type = "corridor"

IsRoom(T) == "type" \in DOMAIN T /\ T.type = "room"

IsItem(T) == "type" \in DOMAIN T /\ T.type = "item"

IsInteractiveMapElement(T) == IsRoom(T) \/ IsItem(T)

IsPlayerState(T) == "health" \in DOMAIN T

(* ---------------- GameMap ---------------- *)

SpidersRoomEast ==
  Room("a door - and you can feel air current comming from below it",
       "You open the door to a completely dark room. As the door slams shut behind you notice another door on the left wall and... lot's of venomous spiders",
       << <<"Exit through the other door", <<Undefined, "spidersRoomEastDoor.runForDoor">> >>,
          <<"Put on the mask", <<"Spider Mask", "spidersRoom.putMask">> >> >>)

Level4 == MapLevel(<<Wall, SpidersRoomEast, Wall>>)

Level3 ==
  MapLevel(<<Corridor("that keep following the tunel seems to be your only option", Level4),
             Wall, Wall>>)

Chest ==
  Item("Locked Chest",
       << <<"Use the Small key", <<"Small Key", "chest.unlock">> >>,
          <<"Force it open", <<Undefined, "chest.force">> >>,
          <<"Leave it", <<Undefined, "chest.leave">> >> >>)

Level2 ==
  MapLevel(<<Corridor("that the tunnel you're in continues", Level3), Wall, Chest>>)

SpidersRoomSouth ==
  Room("a door - and you can feel air current comming through it",
       "You open the door to a room full of venomous spiders. There's another door in the right wall",
       << <<"Reach for the other door", <<Undefined, "spidersRoomSouthDoor.runForDoor">> >>,
          <<"Exit from where you came", <<Undefined, "spidersRoomSouthDoor.exit">> >>,
          <<"Put on the mask", <<"Spider Mask", "spidersRoom.putMask">> >> >>)

Level1 ==
  MapLevel(<<Wall, SpidersRoomSouth, Corridor("a tunnel that biffurcates", Level2)>>)

KeyRoom ==
  Room("a half opened door",
       "Opening the door you find youserlf in a room with a small desk. The desk has one drawer",
       << <<"Open the drawer", <<Undefined, "keyRoom.key">> >>,
          <<"Exit the room", <<Undefined, "keyRoom.exit">> >> >>)

Level0 ==
  MapLevel(<<KeyRoom, Corridor("a dark and humid corridor.", Level1), Wall>>)

\* GameMap indexed one level too low
GameMapOffByOne == [i \in 0..4 |->
  CASE i = 0 -> Level0 [] i = 1 -> Level0 [] i = 2 -> Level1 [] i = 3 -> Level2 [] i = 4 -> Level3]

GameMap == [i \in 0..4 |->
  CASE i = 0 -> Level0 [] i = 1 -> Level1 [] i = 2 -> Level2 [] i = 3 -> Level3 [] i = 4 -> Level4]

(* ---------------- descriptions and available actions ---------------- *)

Directions == <<"On your left you notice", "In front of you there's", "On your right you see">>

\* DescribeMapLevel<TMapLevel>: a wall maps to the empty string, any other element
\* to `${direction} ${description}.`, and the three strings are joined with " "
DescribeMapLevel(TMapLevel) ==
  LET TLevel == TMapLevel.level
  IN Join([Index \in 1..3 |->
             IF IsWall(TLevel[Index]) THEN <<>>
             ELSE <<Get(Directions, Index - 1)>> \o <<" ">> \o TLevel[Index].description \o <<".">>],
          <<" ">>)

\* TGameState[1]["position"]["actions"]; indexing `never` gives `never`, no keys
PositionActions(TPlayerState) ==
  IF IsPlayerState(TPlayerState) THEN TPlayerState.position.actions ELSE <<>>

\* TGameState[1]["inventory"][0]: the item on top of the inventory only
InventoryItemsFirst(TPlayerState) ==
  IF IsPlayerState(TPlayerState) /\ TPlayerState.inventory # <<>>
  THEN {TPlayerState.inventory[1]} ELSE {}

\* TGameState[1]["inventory"][number]
InventoryItems(TPlayerState) ==
  IF IsPlayerState(TPlayerState)
  THEN {TPlayerState.inventory[i] : i \in DOMAIN TPlayerState.inventory} ELSE {}

\* ListActions matching [undefined | GameItems, any] instead of the inventory's items
ListActionsAllItems(TGameState, TActions) ==
  KeyWithValue(TActions, GameItems)

\* ListActions<TGameState, TActions>: the union of the keys currently available
ListActions(TGameState, TActions) ==
  KeyWithValue(TActions, InventoryItems(TGameState[2]))

\* Union.ToTuple<TUnion>: the members in the order the compiler holds them, which is
\* fixed for a build (tupleOrder) and is not the declaration order in general
ToTuple(TUnion) ==
  LET ordered == SelectSeq(tupleOrder, LAMBDA k : k \in TUnion)
  IN [i \in DOMAIN ordered |-> <<ordered[i]>>]

(* ---------------- Move ---------------- *)

\* Move without the wall case: a wall is entered like a room
MoveIntoWall(TGameState, TAction, TCurrentPosition) ==
  LET row == CHOOSE i \in DOMAIN TCurrentPosition.actions : TCurrentPosition.actions[i][1] = TAction
      TDirection == TCurrentPosition.actions[row][2][2]
      TTargetElement == Get(TCurrentPosition.level, TDirection)
  IN IF IsCorridor(TTargetElement)
     THEN << DescribeMapLevel(TTargetElement.target),
             Update(TGameState[2], [position |-> TTargetElement.target]) >>
     ELSE IF IsRoom(TTargetElement)
     THEN << TTargetElement.insideDescription \o <<". Your available actions are: ">>
               \o Join(ToTuple(ListActions(TGameState, TTargetElement.actions)), <<", ">>),
             Update(TGameState[2], [position |-> TTargetElement]) >>
     ELSE << <<"You reach for the ">> \o TTargetElement.description
               \o <<". Your available actions are: ">>
               \o Join(ToTuple(ListActions(TGameState, TTargetElement.actions)), <<", ">>),
             Update(TGameState[2], [position |-> TTargetElement]) >>

\* Move placing the player in the corridor instead of at the corridor's target
MoveIntoCorridor(TGameState, TAction, TCurrentPosition) ==
  LET row == CHOOSE i \in DOMAIN TCurrentPosition.actions : TCurrentPosition.actions[i][1] = TAction
      TDirection == TCurrentPosition.actions[row][2][2]
      TTargetElement == Get(TCurrentPosition.level, TDirection)
  IN IF IsWall(TTargetElement)
     THEN << <<"You can't go this way. ">> \o DescribeMapLevel(TCurrentPosition), TGameState[2] >>
     ELSE IF IsCorridor(TTargetElement)
     THEN << DescribeMapLevel(TTargetElement.target),
             Update(TGameState[2], [position |-> TTargetElement]) >>
     ELSE IF IsRoom(TTargetElement)
     THEN << TTargetElement.insideDescription \o <<". Your available actions are: ">>
               \o Join(ToTuple(ListActions(TGameState, TTargetElement.actions)), <<", ">>),
             Update(TGameState[2], [position |-> TTargetElement]) >>
     ELSE << <<"You reach for the ">> \o TTargetElement.description
               \o <<". Your available actions are: ">>
               \o Join(ToTuple(ListActions(TGameState, TTargetElement.actions)), <<", ">>),
             Update(TGameState[2], [position |-> TTargetElement]) >>

Move(TGameState, TAction, TCurrentPosition) ==
  LET row == CHOOSE i \in DOMAIN TCurrentPosition.actions : TCurrentPosition.actions[i][1] = TAction
      TDirection == TCurrentPosition.actions[row][2][2]
      TTargetElement == Get(TCurrentPosition.level, TDirection)
  IN IF IsWall(TTargetElement)
     THEN << <<"You can't go this way. ">> \o DescribeMapLevel(TCurrentPosition), TGameState[2] >>
     ELSE IF IsCorridor(TTargetElement)
     THEN << DescribeMapLevel(TTargetElement.target),
             Update(TGameState[2], [position |-> TTargetElement.target]) >>
     ELSE IF IsRoom(TTargetElement)
     THEN << TTargetElement.insideDescription \o <<". Your available actions are: ">>
               \o Join(ToTuple(ListActions(TGameState, TTargetElement.actions)), <<", ">>),
             Update(TGameState[2], [position |-> TTargetElement]) >>
     ELSE << <<"You reach for the ">> \o TTargetElement.description
               \o <<". Your available actions are: ">>
               \o Join(ToTuple(ListActions(TGameState, TTargetElement.actions)), <<", ">>),
             Update(TGameState[2], [position |-> TTargetElement]) >>

(* ---------------- Actions ---------------- *)

EffectKeys ==
  {"keyRoom.key", "keyRoom.exit", "spidersRoomSouthDoor.runForDoor",
   "spidersRoomSouthDoor.exit", "spidersRoomEastDoor.runForDoor", "spidersRoom.putMask",
   "chest.unlock", "chest.force", "chest.leave"}

Actions(TPlayerState) == [key \in EffectKeys |->
  CASE key = "keyRoom.key" ->
         << <<"You find a small key! You put in your pocket and leave the room, leaving the door open as you found.">>,
            Update(TPlayerState, [position |-> GameMap[0],
                                  inventory |-> <<"Small Key">> \o TPlayerState.inventory]) >>
    [] key = "keyRoom.exit" ->
         << <<"You leave the room.">>, Update(TPlayerState, [position |-> GameMap[0]]) >>
    [] key = "spidersRoomSouthDoor.runForDoor" ->
         << <<"You make a run for the other door, only to find it locked. You get back from where you came and, as you leave the room, you are bitten and loose one hit point.">>,
            Update(TPlayerState, [health |-> Decrement(TPlayerState.health),
                                  position |-> GameMap[1]]) >>
    [] key = "spidersRoomSouthDoor.exit" ->
         << <<"You just go back from where you came and avoid getting hurt.">>,
            Update(TPlayerState, [position |-> GameMap[1]]) >>
    [] key = "spidersRoomEastDoor.runForDoor" ->
         << <<"You make a run for the other door, and as you cross it you are bitten and loose one hit point.">>,
            Update(TPlayerState, [position |-> GameMap[1],
                                  health |-> Decrement(TPlayerState.health)]) >>
    [] key = "spidersRoom.putMask" ->
         << <<"As soon as you put on the mask, the spiders gather around you, and as you move, they spread out making way for you. You focus your efforts in investigating the room and find a hidden passage that leads you... to the lost treasure of Anders Hejlsberg! You did it adventurer, now go check the code.">>,
            Never >>
    [] key = "chest.unlock" ->
         << <<"You grab the small key from your pocket and it fits in the chest lock. Click. Inside the chest you find a hairy mask with multiple eyes. You put it in your bag and close the chest.">>,
            Update(TPlayerState, [position |-> GameMap[2],
                                  inventory |-> <<"Spider Mask">> \o TPlayerState.inventory]) >>
    [] key = "chest.force" ->
         << <<"As you rattle the chest's lock, a spider comes out of nowhere and bites you. ">>,
            Update(TPlayerState, [position |-> GameMap[2],
                                  health |-> Decrement(TPlayerState.health)]) >>
    [] key = "chest.leave" ->
         << <<>>, Update(TPlayerState, [position |-> GameMap[2]]) >>]

(* ---------------- CheckActionResult, Act, NewGame ---------------- *)

\* CheckActionResult testing the position before the health
CheckActionResultLevelFirst(TGameState) ==
  IF TGameState[2] = Never THEN TGameState
  ELSE IF IsMapLevel(TGameState[2].position)
  THEN << TGameState[1] \o <<" ">> \o DescribeMapLevel(TGameState[2].position), TGameState[2] >>
  ELSE IF TGameState[2].health = 0
  THEN << TGameState[1] \o <<" You are Dead - Game Over!">>, Null >>
  ELSE TGameState

\* CheckActionResult appending the description of the level without the space
CheckActionResultNoSpace(TGameState) ==
  IF TGameState[2] = Never THEN TGameState
  ELSE IF TGameState[2].health = 0
  THEN << TGameState[1] \o <<" You are Dead - Game Over!">>, Null >>
  ELSE IF IsMapLevel(TGameState[2].position)
  THEN << TGameState[1] \o DescribeMapLevel(TGameState[2].position), TGameState[2] >>
  ELSE TGameState

CheckActionResult(TGameState) ==
  IF TGameState[2] = Never THEN TGameState
  ELSE IF TGameState[2].health = 0
  THEN << TGameState[1] \o <<" You are Dead - Game Over!">>, Null >>
  ELSE IF IsMapLevel(TGameState[2].position)
  THEN << TGameState[1] \o <<" ">> \o DescribeMapLevel(TGameState[2].position), TGameState[2] >>
  ELSE TGameState

\* TCurrentPosition["actions"][TAction][1]: the effect key of an action of the table
EffectKey(TCurrentPosition, TAction) ==
  LET row == CHOOSE i \in DOMAIN TCurrentPosition.actions : TCurrentPosition.actions[i][1] = TAction
  IN TCurrentPosition.actions[row][2][2]

\* Act handing the result of Move to CheckActionResult as well
ActCheckAll(TGameState, TAction, TPlayerState) ==
  LET TCurrentPosition == TPlayerState.position
  IN IF IsMapLevel(TCurrentPosition)
     THEN CheckActionResult(Move(TGameState, TAction, TCurrentPosition))
     ELSE CheckActionResult(Actions(TPlayerState)[EffectKey(TCurrentPosition, TAction)])

\* Act carrying the player state through an effect whose state is `never`
ActKeepsStateOnWin(TGameState, TAction, TPlayerState) ==
  LET TCurrentPosition == TPlayerState.position
      TSelectedAction == Actions(TPlayerState)[EffectKey(TCurrentPosition, TAction)]
  IN IF IsMapLevel(TCurrentPosition)
     THEN Move(TGameState, TAction, TCurrentPosition)
     ELSE IF TSelectedAction[2] = Never THEN <<TSelectedAction[1], TPlayerState>>
     ELSE CheckActionResult(TSelectedAction)

\* Act<TGameState, TAction, TPlayerState>, for TAction extends ListActions<TGameState>
Act(TGameState, TAction, TPlayerState) ==
  LET TCurrentPosition == TPlayerState.position
  IN IF IsMapLevel(TCurrentPosition)
     THEN Move(TGameState, TAction, TCurrentPosition)
     ELSE CheckActionResult(Actions(TPlayerState)[EffectKey(TCurrentPosition, TAction)])

\* NewState starting at the second level
NewStateSecondLevel == [health |-> 2, inventory |-> <<>>, position |-> GameMap[1]]

NewState == [health |-> 2, inventory |-> <<>>, position |-> GameMap[0]]

NewGame ==
  << <<"Welcome Adventurer. You locked yourself in this dungeon and you can't go back. ">>
       \o DescribeMapLevel(NewState.position) \o <<" Use the type Act<TGameState, TAction>.">>,
     NewState >>

(* ---------------- the caller ---------------- *)

DirectionIds == {"left", "forward", "right"}

TableKeys(TElement) == {TElement.actions[i][1] : i \in DOMAIN TElement.actions}

InteractiveElements == {KeyRoom, SpidersRoomSouth, Chest, SpidersRoomEast}

\* an action id that is a key of no action table
UnknownAction == "Open the window"

ActionIds ==
  DirectionIds \cup UNION {TableKeys(e) : e \in InteractiveElements} \cup {UnknownAction}

\* the action keys in the order GameMap declares them
DeclarationOrder ==
  <<"Open the drawer", "Exit the room", "Reach for the other door", "Exit from where you came",
    "Put on the mask", "Use the Small key", "Force it open", "Leave it",
    "Exit through the other door">>

Reverse(s) == [i \in DOMAIN s |-> s[Len(s) + 1 - i]]

\* orders in which a build can hold the members of a union of action keys: the
\* compiler orders a union by the age of its member types, not by declaration
TupleOrders == {DeclarationOrder, Reverse(DeclarationOrder)}

Positions == {GameMap[i] : i \in 0..4} \cup InteractiveElements

Inventories(n) == UNION {[1..m -> GameItems] : m \in 0..n}

\* the player states a caller can write down as the input of Act
InputPlayerStates ==
  [health : 0..MaxInputHealth, inventory : Inventories(MaxInputInv), position : Positions]

Init ==
  /\ tupleOrder \in TupleOrders
  /\ narration = NewGame[1]
  /\ player = NewGame[2]
  /\ prevPlayer = NewGame[2]
  /\ action = "none"
  /\ error = "none"

InitAny ==
  /\ tupleOrder \in TupleOrders
  /\ narration = <<>>
  /\ player \in InputPlayerStates
  /\ prevPlayer = player
  /\ action = "none"
  /\ error = "none"

\* the caller replaces its GameState by Act<GameState, TAction>
DoAct(TAction) ==
  /\ IsPlayerState(player)
  /\ TAction \in ListActions(<<narration, player>>, PositionActions(player))
  /\ LET result == Act(<<narration, player>>, TAction, player)
     IN /\ IsPlayerState(result[2]) => Len(result[2].inventory) <= MaxInv
        /\ IsPlayerState(result[2]) => result[2].health >= 0 - MaxDamage
        /\ narration' = result[1]
        /\ player' = result[2]
  /\ prevPlayer' = player
  /\ action' = TAction
  /\ error' = "none"
  /\ UNCHANGED tupleOrder

\* TAction does not satisfy the constraint `TAction extends ListActions<TGameState>`:
\* the instantiation is a compile error and the caller has no new GameState
Reject(TAction) ==
  /\ player # Null
  /\ TAction \notin ListActions(<<narration, player>>, PositionActions(player))
  /\ error' = "IllegalAction"
  /\ action' = TAction
  /\ prevPlayer' = player
  /\ UNCHANGED <<narration, player, tupleOrder>>

Next == \E TAction \in ActionIds : DoAct(TAction) \/ Reject(TAction)

Spec == Init /\ [][Next]_vars

SpecAny == InitAny /\ [][Next]_vars

\* the narrations of hand-written inputs of CheckActionResult: "" and a text
InputNarrations == {Actions(NewState)[key][1] : key \in {"chest.leave", "keyRoom.exit"}}

InitCheck ==
  /\ tupleOrder \in TupleOrders
  /\ narration \in InputNarrations
  /\ player \in InputPlayerStates \cup {Never}
  /\ prevPlayer = player
  /\ action = "none"
  /\ error = "none"

\* CheckActionResult<TGameState> applied to a hand-written GameState
DoCheck ==
  /\ action = "none"
  /\ LET result == CheckActionResult(<<narration, player>>)
     IN /\ narration' = result[1]
        /\ player' = result[2]
  /\ prevPlayer' = player
  /\ action' = "CheckActionResult"
  /\ error' = "none"
  /\ UNCHANGED tupleOrder

NextCheck == DoCheck \/ \E TAction \in ActionIds : DoAct(TAction)

SpecCheck == InitCheck /\ [][NextCheck]_vars

(* ---------------- the last call ---------------- *)

\* the last call was an Act the compiler accepted
Called == action \in ActionIds /\ error = "none"

\* ... made at a MapLevel
Navigated == Called /\ IsMapLevel(prevPlayer.position)

\* ... made inside a Room or an Item
Interacted == Called /\ IsInteractiveMapElement(prevPlayer.position)

\* the effect of the last interaction: the row of Actions the action selects
Effect == Actions(prevPlayer)[EffectKey(prevPlayer.position, action)]

\* the slot of a level a direction leads to
Slot(TMapLevel, id) ==
  TMapLevel.level[CASE id = "left" -> 1 [] id = "forward" -> 2 [] id = "right" -> 3]

Holds(TPlayerState, item) ==
  \E i \in DOMAIN TPlayerState.inventory : TPlayerState.inventory[i] = item

\* the rows of an action table whose required item is absent or held
Available(TActions, TPlayerState) ==
  {TActions[i][1] : i \in {j \in DOMAIN TActions :
      TActions[j][2][1] = Undefined \/ Holds(TPlayerState, TActions[j][2][1])}}

WinNarration ==
  <<"As soon as you put on the mask, the spiders gather around you, and as you move, they spread out making way for you. You focus your efforts in investigating the room and find a hidden passage that leads you... to the lost treasure of Anders Hejlsberg! You did it adventurer, now go check the code.">>

(* ---------------- claims ---------------- *)

\* C1: from NewGame, the health an Act's effect yields is 0, 1 or 2, never negative,
\* and every live player state has health 1 or 2.
C1_HealthRange ==
  /\ IsPlayerState(player) => player.health \in {1, 2}
  /\ (Interacted /\ IsPlayerState(Effect[2])) => Effect[2].health \in {0, 1, 2}

\* C1 witness: an effect brought the health from 1 to 0
C1_Witness ==
  /\ Interacted /\ IsPlayerState(Effect[2])
  /\ prevPlayer.health = 1 /\ Effect[2].health = 0

\* C2: when the effect of an Act brings the health to 0, Act returns the effect's
\* narration followed by " You are Dead - Game Over!" and a null player state,
\* whatever position the effect sets; a health-losing action at health 1 does so.
C2_DeathEndsGame ==
  /\ (Interacted /\ IsPlayerState(Effect[2]) /\ Effect[2].health = 0)
       => /\ narration = Effect[1] \o <<" You are Dead - Game Over!">>
          /\ player = Null
  /\ (Interacted /\ prevPlayer.health = 1
        /\ action \in {"Reach for the other door", "Exit through the other door", "Force it open"})
       => player = Null

\* C2 witness: "Reach for the other door" taken at health 1 returned null
C2_Witness ==
  /\ Interacted /\ prevPlayer.health = 1 /\ action = "Reach for the other door"
  /\ player = Null /\ IsMapLevel(Effect[2].position)

\* C3 as claimed: no Act, navigation included, returns a live player state of health 0.
C3_Original == Called => ~(IsPlayerState(player) /\ player.health = 0)

\* C3 amended: the health check is applied to the result of every interaction, and a
\* navigation is returned unchecked with the health of its input; a live state of
\* health 0 comes only out of a navigation whose input had health 0.
C3_CheckOnInteraction ==
  /\ (Interacted /\ IsPlayerState(Effect[2]) /\ Effect[2].health = 0) => player = Null
  /\ Navigated => (IsPlayerState(player) /\ player.health = prevPlayer.health)
  /\ (Called /\ IsPlayerState(player) /\ player.health = 0)
       => (Navigated /\ prevPlayer.health = 0)

\* C3 witness: a navigation from health 0 returned a live state of health 0
C3_Witness ==
  /\ Navigated /\ prevPlayer.health = 0
  /\ IsPlayerState(player) /\ player.health = 0 /\ player.position # prevPlayer.position

\* C4: an action id that is not legal is rejected as IllegalAction and the player state
\* stays: in a Room or Item an id that is no key of the table or whose required item
\* is not held, at a MapLevel any id other than left, forward, right.
C4_IllegalRejected ==
  (action # "none" /\ IsPlayerState(prevPlayer)
     /\ IF IsMapLevel(prevPlayer.position) THEN action \notin DirectionIds
        ELSE action \notin Available(prevPlayer.position.actions, prevPlayer))
    => (error = "IllegalAction" /\ player = prevPlayer)

\* C4 witness: "Put on the mask" was rejected in a spider room without the mask
C4_Witness ==
  /\ error = "IllegalAction" /\ action = "Put on the mask"
  /\ IsPlayerState(player) /\ player.position = SpidersRoomSouth
  /\ ~Holds(player, "Spider Mask")

\* the action ids a narration lists after "Your available actions are: "
ListedTokens ==
  LET at == CHOOSE i \in DOMAIN narration : narration[i] = ". Your available actions are: "
  IN SubSeq(narration, at + 1, Len(narration))

\* C5: the available actions of a table are exactly the rows whose required item is
\* absent or held; at a MapLevel they are left, forward, right; and the narration of
\* entering a Room or Item lists exactly the available actions of the inventory held.
C5_AvailableActions ==
  IsPlayerState(player) =>
    /\ \A e \in InteractiveElements :
         ListActions(<<narration, player>>, e.actions) = Available(e.actions, player)
    /\ IsMapLevel(player.position)
         => ListActions(<<narration, player>>, PositionActions(player)) = DirectionIds
    /\ (Navigated /\ IsInteractiveMapElement(player.position))
         => LET listed == ListedTokens
                avail == Available(player.position.actions, player)
            IN /\ Len(listed) = 2 * Cardinality(avail) - 1
               /\ {listed[i] : i \in {j \in DOMAIN listed : j % 2 = 1}} = avail
               /\ \A i \in DOMAIN listed : i % 2 = 0 => listed[i] = ", "

\* C5 witness: the spider room was entered with the mask and lists its three actions
C5_Witness ==
  /\ Navigated /\ IsPlayerState(player) /\ player.position = SpidersRoomSouth
  /\ Holds(player, "Spider Mask") /\ Len(ListedTokens) = 5

\* C6: a direction whose slot is a Wall returns the input player state and the
\* narration "You can't go this way. " followed by the description of the level.
C6_WallKeepsState ==
  (Navigated /\ IsWall(Slot(prevPlayer.position, action)))
    => /\ player = prevPlayer
       /\ narration = <<"You can't go this way. ">> \o DescribeMapLevel(prevPlayer.position)

\* C6 witness: "right" was taken at level 3, whose right slot is a wall
C6_Witness ==
  /\ Navigated /\ prevPlayer.position = GameMap[3] /\ action = "right"
  /\ player.position = GameMap[3]

\* C7: a navigation keeps health and inventory; a Corridor slot moves the position to
\* the corridor's target level, a Room or Item slot to that element itself.
C7_NavigationFrame ==
  Navigated =>
    LET target == Slot(prevPlayer.position, action)
    IN /\ IsPlayerState(player)
       /\ player.health = prevPlayer.health
       /\ player.inventory = prevPlayer.inventory
       /\ IsCorridor(target) => player.position = target.target
       /\ IsInteractiveMapElement(target) => player.position = target

\* C7 witness: the corridor of level 1 was taken with a key in the pocket
C7_Witness ==
  /\ Navigated /\ prevPlayer.position = GameMap[1] /\ action = "right"
  /\ player.position = GameMap[2] /\ player.inventory # <<>>

\* C8 as claimed: the win returns the player state the action was taken in.
C8_Original ==
  (Interacted /\ action = "Put on the mask")
    => (narration = WinNarration /\ player = prevPlayer)

\* C8 amended: the win returns the fixed win narration and no player state (`never`
\* in the player slot), the same result for every input state.
C8_WinReturnsNever ==
  (Interacted /\ action = "Put on the mask")
    => (narration = WinNarration /\ player = Never)

\* C8 witness: the mask was put on in the spider room of level 4
C8_Witness ==
  /\ Interacted /\ action = "Put on the mask" /\ prevPlayer.position = SpidersRoomEast
  /\ Holds(prevPlayer, "Spider Mask") /\ narration = WinNarration

\* C9: the result of an interaction whose health is not 0: at a MapLevel the final
\* narration is the effect's narration, one space and the description of that level;
\* still inside a Room or Item it is the effect's narration verbatim; the final
\* state is the effect's player state in both cases.
C9_PostProcessing ==
  [][/\ (action = "none" /\ action' = "CheckActionResult"
           /\ IsPlayerState(player) /\ player.health # 0)
          => /\ player' = player
             /\ IsMapLevel(player.position)
                  => narration' = narration \o <<" ">> \o DescribeMapLevel(player.position)
             /\ IsInteractiveMapElement(player.position) => narration' = narration
     /\ (Interacted' /\ IsPlayerState(Effect'[2]) /\ Effect'[2].health # 0)
          => /\ player' = Effect'[2]
             /\ IsMapLevel(Effect'[2].position)
                  => narration' = Effect'[1] \o <<" ">> \o DescribeMapLevel(Effect'[2].position)
             /\ IsInteractiveMapElement(Effect'[2].position) => narration' = Effect'[1]
    ]_vars

\* C9 witness: CheckActionResult returned a text and a player still inside the chest
C9_Witness ==
  /\ action = "CheckActionResult" /\ IsPlayerState(player) /\ player.position = Chest
  /\ player = prevPlayer /\ narration # <<>>

\* the contributions of the non-Wall slots of a level, left to right
Contributions(TMapLevel) ==
  LET slots == SelectSeq(<<1, 2, 3>>, LAMBDA i : ~IsWall(TMapLevel.level[i]))
  IN [n \in DOMAIN slots |->
        <<Directions[slots[n]], " ">> \o TMapLevel.level[slots[n]].description \o <<".">>]

\* C10: the description of a level is the contributions of its non-Wall slots, in the
\* order left, forward, right, with exactly one space between consecutive ones and no
\* leading, trailing or doubled separator for a Wall; stated of the description an
\* Act through a corridor returns.
C10_DescribeLevel ==
  (Navigated /\ IsCorridor(Slot(prevPlayer.position, action)))
    => /\ narration = Join(Contributions(player.position), <<" ">>)
       /\ narration # <<>> => (Head(narration) # " " /\ narration[Len(narration)] # " ")
       /\ \A i \in 1..(Len(narration) - 1) : ~(narration[i] = " " /\ narration[i + 1] = " ")

\* C11: from NewGame, the position of a live player state is one of the five levels
\* or one of the four interactive elements of the map, never a Wall or a Corridor.
C11_PositionInMap ==
  IsPlayerState(player) =>
    /\ player.position \in {Level0, Level1, Level2, Level3, Level4,
                            KeyRoom, SpidersRoomSouth, Chest, SpidersRoomEast}
    /\ ~IsWall(player.position) /\ ~IsCorridor(player.position)

\* C11 witness: the player stands in front of a wall of level 4 after trying it
C11_Witness ==
  /\ Navigated /\ action = "left" /\ IsPlayerState(player) /\ player.position = Level4

\* C12: a pickup prepends exactly one item and returns the player to the level of the
\* element: "Open the drawer" gives "Small Key" and level 0, "Use the Small key"
\* gives "Spider Mask" and level 2; the health is unchanged by both.
C12_Pickups ==
  /\ (Interacted /\ prevPlayer.position = KeyRoom /\ action = "Open the drawer")
       => LET picked == [health |-> prevPlayer.health, position |-> Level0,
                         inventory |-> <<"Small Key">> \o prevPlayer.inventory]
          IN Effect[2] = picked /\ (prevPlayer.health # 0 => player = picked)
  /\ (Interacted /\ prevPlayer.position = Chest /\ action = "Use the Small key")
       => LET picked == [health |-> prevPlayer.health, position |-> Level2,
                         inventory |-> <<"Spider Mask">> \o prevPlayer.inventory]
          IN Effect[2] = picked /\ (prevPlayer.health # 0 => player = picked)

\* C12 witness: the chest was unlocked with the key and the mask lies on top of it
C12_Witness ==
  /\ Interacted /\ action = "Use the Small key" /\ IsPlayerState(player)
  /\ player.inventory = <<"Spider Mask", "Small Key">> /\ player.position = Level2

\* C13: in the spider room of level 1, "Reach for the other door" is available without
\* the mask, takes exactly one health, keeps the inventory and leads to level 1; from
\* health 2 the result is a live state at level 1 with health 1.
C13_ReachForDoor ==
  /\ (IsPlayerState(player) /\ player.position = SpidersRoomSouth)
       => "Reach for the other door" \in ListActions(<<narration, player>>, PositionActions(player))
  /\ (Interacted /\ prevPlayer.position = SpidersRoomSouth
        /\ action = "Reach for the other door")
       => IF prevPlayer.health - 1 = 0 THEN player = Null
          ELSE player = [health |-> prevPlayer.health - 1, position |-> Level1,
                         inventory |-> prevPlayer.inventory]

\* C13 witness: the door was reached for at health 2 without the mask
C13_Witness ==
  /\ Interacted /\ prevPlayer.position = SpidersRoomSouth
  /\ action = "Reach for the other door" /\ prevPlayer.health = 2
  /\ ~Holds(prevPlayer, "Spider Mask")
  /\ IsPlayerState(player) /\ player.health = 1 /\ player.position = Level1

\* C14: NewGame gives health 2, an empty inventory and level 0, with a narration that
\* begins with the welcome and contains the description of level 0.
C14_NewGame ==
  action = "none" =>
    /\ player = [health |-> 2, inventory |-> <<>>, position |-> Level0]
    /\ Head(narration)
         = "Welcome Adventurer. You locked yourself in this dungeon and you can't go back. "
    /\ LET described == Join(Contributions(Level0), <<" ">>)
       IN \E i \in DOMAIN narration :
            SubSeq(narration, i, i + Len(described) - 1) = described

\* C14 witness: the GameState of NewGame, before any Act
C14_Witness ==
  /\ action = "none" /\ IsPlayerState(player) /\ player.health = 2
  /\ player.inventory = <<>> /\ Len(narration) > 1

\* the index of the level a position is, or is an element of; -1 outside the map
LevelIndex(T) ==
  LET levels == <<Level0, Level1, Level2, Level3, Level4>>
      found == {i \in 1..5 : levels[i] = T \/ \E k \in 1..3 : levels[i].level[k] = T}
  IN IF found = {} THEN 0 - 1 ELSE (CHOOSE i \in found : TRUE) - 1

\* C16 as claimed: over the Act calls from NewGame the level index never decreases.
C16_Original ==
  (Called /\ IsPlayerState(player))
    => LevelIndex(player.position) >= LevelIndex(prevPlayer.position)

\* C16 amended: the level index grows only by one, through a Corridor, and decreases
\* only by "Exit through the other door" in the spider room of level 4, which returns
\* the player to level 1.
C16_LevelOrder ==
  (Called /\ IsPlayerState(player)) =>
    LET before == LevelIndex(prevPlayer.position)
        after == LevelIndex(player.position)
    IN /\ after > before
            => (Navigated /\ IsCorridor(Slot(prevPlayer.position, action)) /\ after = before + 1)
       /\ after < before
            => (prevPlayer.position = SpidersRoomEast
                  /\ action = "Exit through the other door" /\ after = 1)

\* C16 witness: the other door of the level-4 spider room led back to level 1
C16_Witness ==
  /\ Interacted /\ prevPlayer.position = SpidersRoomEast
  /\ action = "Exit through the other door"
  /\ IsPlayerState(player) /\ player.position = Level1

\* C17: every interaction that returns a live state leaves the player at a MapLevel,
\* so a live player inside a Room or Item has always just navigated there.
C17_EffectsLeave ==
  /\ (Interacted /\ IsPlayerState(player)) => IsMapLevel(player.position)
  /\ (Called /\ IsPlayerState(player) /\ IsInteractiveMapElement(player.position))
       => Navigated

\* C17 witness: the chest was left alone and the player is back at level 2
C17_Witness ==
  /\ Interacted /\ action = "Leave it" /\ IsPlayerState(player)
  /\ player.position = Level2

IsSuffix(s, t) ==
  Len(s) <= Len(t) /\ SubSeq(t, Len(t) - Len(s) + 1, Len(t)) = s

\* C18: from NewGame, a held "Spider Mask" implies a held "Small Key", "Green Gem" is
\* never held, and the inventory before an Act is a suffix of the inventory after it.
C18_Inventory ==
  IsPlayerState(player) =>
    /\ Holds(player, "Spider Mask") => Holds(player, "Small Key")
    /\ ~Holds(player, "Green Gem")
    /\ Called => IsSuffix(prevPlayer.inventory, player.inventory)

\* C18 witness: the mask was taken from the chest and lies on top of the key
C18_Witness ==
  /\ Called /\ IsPlayerState(player) /\ Holds(player, "Spider Mask")
  /\ Len(player.inventory) = Len(prevPlayer.inventory) + 1

\* C19: "Open the drawer" is available in the key room whatever is held, "Use the
\* Small key" on the chest whenever "Small Key" is held, and each of them prepends
\* one more copy of its item, so the inventory outgrows the distinct items.
C19_RepeatedPickups ==
  /\ (IsPlayerState(player) /\ player.position = KeyRoom)
       => "Open the drawer" \in ListActions(<<narration, player>>, PositionActions(player))
  /\ (IsPlayerState(player) /\ player.position = Chest /\ Holds(player, "Small Key"))
       => "Use the Small key" \in ListActions(<<narration, player>>, PositionActions(player))
  /\ (Interacted /\ IsPlayerState(player)
        /\ action \in {"Open the drawer", "Use the Small key"})
       => /\ Len(player.inventory) = Len(prevPlayer.inventory) + 1
          /\ Tail(player.inventory) = prevPlayer.inventory
          /\ Head(player.inventory)
               = (IF action = "Open the drawer" THEN "Small Key" ELSE "Spider Mask")

\* C19 witness: the drawer was opened with a key in the pocket and gave a second one
C19_Witness ==
  /\ Interacted /\ action = "Open the drawer" /\ IsPlayerState(player)
  /\ player.inventory = <<"Small Key", "Small Key">>
  /\ Len(player.inventory) > Cardinality({player.inventory[i] : i \in DOMAIN player.inventory})

\* C20: no live state is stuck: at a MapLevel the three directions are available, every
\* Room and Item has an action without a required item, and so the available actions
\* of a live state are never empty, whatever the inventory.
C20_NeverStuck ==
  IsPlayerState(player) =>
    /\ ListActions(<<narration, player>>, PositionActions(player)) # {}
    /\ IsMapLevel(player.position)
         => {"left", "forward", "right"}
              \subseteq ListActions(<<narration, player>>, PositionActions(player))
    /\ \A e \in {KeyRoom, SpidersRoomSouth, Chest, SpidersRoomEast} :
         \E i \in DOMAIN e.actions : e.actions[i][2][1] = Undefined

\* C20 witness: inside the level-4 spider room without the mask one action is left
C20_Witness ==
  /\ Navigated /\ IsPlayerState(player) /\ player.position = SpidersRoomEast
  /\ ~Holds(player, "Spider Mask")
  /\ ListActions(<<narration, player>>, PositionActions(player))
       = {"Exit through the other door"}

\* the player is at level 1 or beyond, or inside one of its elements, without the key
KeylessBeyond(TPlayerState) ==
  /\ IsPlayerState(TPlayerState)
  /\ LevelIndex(TPlayerState.position) >= 1
  /\ ~Holds(TPlayerState, "Small Key")

\* C21: from NewGame, once the player is at level 1 or beyond without "Small Key", no
\* Act wins: the next state is not the win, and if it is live it is again at level 1
\* or beyond without the key; the key room is entered from level 0 only, and in the
\* level-4 spider room the only action left is the health-losing exit to level 1.
C21_NoWinWithoutKey ==
  [][/\ KeylessBeyond(player) => (player' # Never /\ (IsPlayerState(player') => KeylessBeyond(player')))
     /\ (IsPlayerState(player) /\ IsPlayerState(player') /\ player'.position = KeyRoom)
          => player.position \in {Level0, KeyRoom}
     /\ (KeylessBeyond(player) /\ player.position = SpidersRoomEast)
          => /\ ListActions(<<narration, player>>, PositionActions(player))
                  = {"Exit through the other door"}
             /\ (player' # player /\ IsPlayerState(player'))
                  => (player'.position = Level1 /\ player'.health = player.health - 1)
    ]_vars

\* C21 witness: the player left the level-4 spider room for level 1 without the key
C21_Witness ==
  /\ Interacted /\ prevPlayer.position = SpidersRoomEast
  /\ KeylessBeyond(prevPlayer) /\ KeylessBeyond(player) /\ player.position = Level1

WinningActions ==
  <<"left", "Open the drawer", "forward", "right", "right", "Use the Small key",
    "left", "left", "forward", "Put on the mask">>

\* the GameStates a sequence of action ids leads through, up to the first id that is
\* not available in the GameState it is applied to
RECURSIVE Run(_, _)
Run(TGameState, ids) ==
  IF ids = <<>> \/ ~IsPlayerState(TGameState[2])
       \/ Head(ids) \notin ListActions(TGameState, PositionActions(TGameState[2]))
  THEN <<TGameState>>
  ELSE <<TGameState>> \o Run(Act(TGameState, Head(ids), TGameState[2]), Tail(ids))

\* C22: from NewGame the actions left, "Open the drawer", forward, right, right, "Use
\* the Small key", left, left, forward, "Put on the mask" are each available in the
\* state they are applied to, the health is 2 throughout, and the last Act returns the
\* win narration.
C22_WinReachable ==
  LET run == Run(NewGame, WinningActions)
  IN /\ Len(run) = Len(WinningActions) + 1
     /\ \A i \in 1..Len(WinningActions) :
          IsPlayerState(run[i][2]) /\ run[i][2].health = 2
     /\ run[Len(run)][1] = WinNarration

\* C22 witness: the mask was put on in the level-4 spider room at health 2, with the
\* mask on top of the key
C22_Witness ==
  /\ Interacted /\ action = "Put on the mask" /\ narration = WinNarration
  /\ prevPlayer = [health |-> 2, position |-> SpidersRoomEast,
                   inventory |-> <<"Spider Mask", "Small Key">>]

====
